---- MODULE Spec2Model ----
(***************************************************************************)
(* Model of the nameplate order handler (netlify/functions/submit-order):  *)
(* the table (spreadsheet) builder, the paginated PDF renderer, the markup *)
(* preview builder, and the upload / notification tail of the handler.     *)
(*                                                                         *)
(* The repository holds five revisions of the handler; the variable rev    *)
(* selects the one a behaviour runs:                                       *)
(*   "pdf2"   src/netlify/functions/submit-order.mts lines 324-683         *)
(*   "pdf1"   src/netlify/functions/submit-order.mts lines   1-322         *)
(*   "html"   src/unnamed/part_001 lines   1-206                           *)
(*   "typed"  src/unnamed/part_000                                         *)
(*   "legacy" src/unnamed/part_001 lines 208-683                           *)
(*                                                                         *)
(* Representation.  A JavaScript string is a sequence of one-character     *)
(* strings, so that case folding and truncation are computed, not assumed. *)
(* A property that may be absent (undefined) is an option: <<>> when       *)
(* absent, <<v>> when present.  A JavaScript number is an exact rational   *)
(* <<n, d>> with d > 0 in lowest terms (the model does not round as IEEE   *)
(* doubles do).  A table cell holding a number n is <<n>>, the empty size  *)
(* marker "" is <<>>.                                                      *)
(***************************************************************************)
EXTENDS Integers, Sequences, FiniteSets, TLC

VARIABLES rev, req, pc, env, maxTextLines, rows, totalLabels,
          y, page, li, cards, blocks, puts, hooks, response,
          fitIn, fitOut, colorIn, colorOut, truncIn, truncOut

vars == <<rev, req, pc, env, maxTextLines, rows, totalLabels,
          y, page, li, cards, blocks, puts, hooks, response,
          fitIn, fitOut, colorIn, colorOut, truncIn, truncOut>>

handlerVars == <<rev, req, pc, env, maxTextLines, rows, totalLabels,
                 y, page, li, cards, blocks, puts, hooks, response>>

pureVars == <<fitIn, fitOut, colorIn, colorOut, truncIn, truncOut>>

(***************************************************************************)
(* Bounds of the model.                                                    *)
(***************************************************************************)
\* Longest order of identical designs (cards of one height) that is rendered.
MaxCards == 16
\* Largest design width / height drawn for the geometry scaler on its own.
MaxDim == 9
\* Longest text given to truncate on its own.
MaxText == 28

(***************************************************************************)
(* Options and JavaScript truthiness.                                      *)
(***************************************************************************)
None == <<>>
Some(v) == <<v>>

\* a || d for a number property: undefined and 0 are falsy.
NumOr(o, d) == IF o = None \/ o[1] = 0 THEN d ELSE o[1]
\* a || d for a string property: undefined and "" are falsy.
StrOr(o, d) == IF o = None \/ o[1] = <<>> THEN d ELSE o[1]
\* !!a for a string property.
StrTruthy(o) == o # None /\ o[1] # <<>>

(***************************************************************************)
(* Exact rational arithmetic standing for JavaScript number arithmetic.    *)
(***************************************************************************)
RECURSIVE Gcd(_, _)
Gcd(a, b) == IF b = 0 THEN a ELSE Gcd(b, a % b)

Abs(n) == IF n < 0 THEN -n ELSE n

Rat(n, d) ==
  LET s == IF d < 0 THEN -1 ELSE 1
      g == Gcd(Abs(n), Abs(d))
  IN  <<(s * n) \div g, (s * d) \div g>>

RInt(n) == <<n, 1>>
RAdd(a, b) == Rat(a[1] * b[2] + b[1] * a[2], a[2] * b[2])
RSub(a, b) == Rat(a[1] * b[2] - b[1] * a[2], a[2] * b[2])
RMul(a, b) == Rat(a[1] * b[1], a[2] * b[2])
RDiv(a, b) == Rat(a[1] * b[2], a[2] * b[1])
RLt(a, b) == a[1] * b[2] < b[1] * a[2]
RLe(a, b) == a[1] * b[2] <= b[1] * a[2]
RMax(a, b) == IF RLt(a, b) THEN b ELSE a
RMin(a, b) == IF RLt(b, a) THEN b ELSE a
\* Math.floor of a non-negative rational.
RFloor(a) == a[1] \div a[2]

(***************************************************************************)
(* Strings.                                                                *)
(***************************************************************************)
UpperChars == <<"A", "B", "C", "D", "E", "F", "G", "H", "I", "J", "K", "L", "M",
                "N", "O", "P", "Q", "R", "S", "T", "U", "V", "W", "X", "Y", "Z">>
LowerChars == <<"a", "b", "c", "d", "e", "f", "g", "h", "i", "j", "k", "l", "m",
                "n", "o", "p", "q", "r", "s", "t", "u", "v", "w", "x", "y", "z">>

LowerChar(c) ==
  IF \E i \in DOMAIN UpperChars : UpperChars[i] = c
  THEN LowerChars[CHOOSE i \in DOMAIN UpperChars : UpperChars[i] = c]
  ELSE c

UpperChar(c) ==
  IF \E i \in DOMAIN LowerChars : LowerChars[i] = c
  THEN UpperChars[CHOOSE i \in DOMAIN LowerChars : LowerChars[i] = c]
  ELSE c

\* String.prototype.toLowerCase
toLowerCase(s) == [i \in DOMAIN s |-> LowerChar(s[i])]
\* String.prototype.toUpperCase
toUpperCase(s) == [i \in DOMAIN s |-> UpperChar(s[i])]

(***************************************************************************)
(* Color Resolver: getColorName.                                           *)
(***************************************************************************)
HexGreen  == <<"#", "2", "2", "c", "5", "5", "e">>
HexRed    == <<"#", "e", "f", "4", "4", "4", "4">>
HexYellow == <<"#", "e", "a", "b", "3", "0", "8">>
HexBlue   == <<"#", "3", "b", "8", "2", "f", "6">>
HexBlack  == <<"#", "1", "a", "1", "a", "1", "a">>
HexWhite  == <<"#", "f", "f", "f", "f", "f", "f">>
HexOrange == <<"#", "f", "9", "7", "3", "1", "6">>
HexGray   == <<"#", "6", "b", "7", "2", "8", "0">>

\* Mutant of colors: a palette in which a canonical name is itself a key.
colors_NameIsKey ==
  { <<<<"#", "2", "2", "c", "5", "5", "e">>, <<"G", "r", "e", "e", "n">>>>,
    <<<<"g", "r", "e", "e", "n">>, <<"L", "i", "m", "e">>>> }

\* The own properties of the object literal `colors`.
colors ==
  { <<HexGreen,  <<"G", "r", "e", "e", "n">>>>,
    <<HexRed,    <<"R", "e", "d">>>>,
    <<HexYellow, <<"Y", "e", "l", "l", "o", "w">>>>,
    <<HexBlue,   <<"B", "l", "u", "e">>>>,
    <<HexBlack,  <<"B", "l", "a", "c", "k">>>>,
    <<HexWhite,  <<"W", "h", "i", "t", "e">>>>,
    <<HexOrange, <<"O", "r", "a", "n", "g", "e">>>>,
    <<HexGray,   <<"G", "r", "a", "y">>>> }

\* `colors` is a plain object literal: a key it does not own is looked up on
\* Object.prototype.  The all-lower-case names found there are "constructor"
\* (the function Object) and "__proto__" (Object.prototype itself); both values
\* are truthy and neither is a string.
KeyConstructor == <<"c", "o", "n", "s", "t", "r", "u", "c", "t", "o", "r">>
KeyProto == <<"_", "_", "p", "r", "o", "t", "o", "_", "_">>
ObjectFunction == <<"function Object() { [native code] }">>
ObjectPrototype == <<"[object Object]">>

\* colors[key]: None stands for undefined.
colorsLookup(key) ==
  IF \E e \in colors : e[1] = key
  THEN Some((CHOOSE e \in colors : e[1] = key)[2])
  ELSE IF key = KeyConstructor THEN Some(ObjectFunction)
  ELSE IF key = KeyProto THEN Some(ObjectPrototype)
  ELSE None

\* return colors[hex.toLowerCase()] || hex;
getColorName(hex) ==
  LET found == colorsLookup(toLowerCase(hex))
  IN  IF found = None THEN hex ELSE found[1]

(***************************************************************************)
(* Geometry Scaler.                                                        *)
(***************************************************************************)
margin == 20
\* doc.internal.pageSize.getHeight() of jsPDF's default page, A4 portrait in
\* millimetres (841.89 pt, i.e. 297.00008 mm: no cursor of the model lies between
\* the thresholds computed from 297 and from 297.00008).
pageHeight == 297
maxBoxWidth == 40
maxBoxHeight == 25

\* Mutant of fitBox: the two branches of the ratio test are exchanged.
fitBox_BranchesSwapped(dw, dh, maxW, maxH) ==
  LET labelRatio == Rat(dw, dh)
  IN  IF RLt(Rat(maxW, maxH), labelRatio)
      THEN [boxWidth |-> RMul(RInt(maxH), labelRatio), boxHeight |-> RInt(maxH)]
      ELSE [boxWidth |-> RInt(maxW), boxHeight |-> RDiv(RInt(maxW), labelRatio)]

\* "scale to fit but maintain aspect ratio" (pdf2), with the two maxima as
\* parameters: dw, dh, maxW, maxH are integers, the result is rational.
fitBox(dw, dh, maxW, maxH) ==
  LET labelRatio == Rat(dw, dh)
  IN  IF RLt(Rat(maxW, maxH), labelRatio)
      THEN [boxWidth |-> RInt(maxW), boxHeight |-> RDiv(RInt(maxW), labelRatio)]
      ELSE [boxWidth |-> RMul(RInt(maxH), labelRatio), boxHeight |-> RInt(maxH)]

\* legacy: scale = Math.min(240 / (w * 72), 60 / (h * 72)); width = w * 72 * scale;
\* height = h * 72 * scale.
legacyBox(dw, dh) ==
  LET scale == RMin(Rat(240, dw * 72), Rat(60, dh * 72))
  IN  [boxWidth |-> RMul(RInt(dw * 72), scale),
       boxHeight |-> RMul(RInt(dh * 72), scale),
       scale |-> scale]

(***************************************************************************)
(* Requests.                                                               *)
(***************************************************************************)
TxtACME  == <<"A", "C", "M", "E">>
TxtLOT7  == <<"L", "O", "T", " ", "7">>
TxtB2    == <<"B", "2">>
TxtA     == <<"A">>
TxtArial == <<"A", "r", "i", "a", "l">>
TxtCalibri == <<"C", "a", "l", "i", "b", "r", "i">>
TxtSquared == <<"s", "q", "u", "a", "r", "e", "d">>
TxtRounded == <<"r", "o", "u", "n", "d", "e", "d">>
TxtYes == <<"Y", "e", "s">>
TxtNo == <<"N", "o">>
\* The em-dash placeholder (one character, U+2014).
TxtDash == <<"EM DASH">>
\* A text of 22 characters, longer than every truncation budget but 25.
TxtLong == <<"N", "A", "M", "E", "P", "L", "A", "T", "E", "-", "L", "O", "N", "G",
             "-", "T", "E", "X", "T", "-", "2", "2">>
TxtRef == <<"R", "-", "1">>
TxtNote == <<"r", "u", "s", "h">>
TxtName == <<"A", "n", "n">>
HexGreenMixed == <<"#", "2", "2", "C", "5", "5", "E">>
HexUnknown == <<"#", "1", "2", "3", "4", "5", "6">>

Line(t, fs, px, py) == [text |-> t, fontSize |-> fs, x |-> px, y |-> py]

\* End-to-end example, design A: 7 x 2, quantity 3, one line "ACME".
DesignA ==
  [width |-> Some(7), height |-> Some(2), quantity |-> Some(3),
   textLines |-> Some(<<Line(TxtACME, 20, 50, 50)>>),
   font |-> Some(TxtArial), labelColor |-> Some(HexGreenMixed),
   textColor |-> Some(HexWhite), colorName |-> Some(<<"G", "r", "e", "e", "n">>),
   corners |-> Some(TxtSquared), stickyBack |-> FALSE]

\* End-to-end example, design B: 4 x 2, quantity 1, lines "LOT 7" and "B2".
DesignB ==
  [width |-> Some(4), height |-> Some(2), quantity |-> Some(1),
   textLines |-> Some(<<Line(TxtLOT7, 24, 50, 30), Line(TxtB2, 12, 50, 70)>>),
   font |-> Some(TxtCalibri), labelColor |-> Some(HexUnknown),
   textColor |-> Some(HexBlack), colorName |-> Some(<<"T", "e", "a", "l">>),
   corners |-> Some(TxtRounded), stickyBack |-> TRUE]

\* A design with every optional property absent.
DesignBare ==
  [width |-> None, height |-> None, quantity |-> None, textLines |-> None,
   font |-> None, labelColor |-> None, textColor |-> None, colorName |-> None,
   corners |-> None, stickyBack |-> FALSE]

\* quantity 0, no text line.
DesignZero == [DesignA EXCEPT !.quantity = Some(0), !.textLines = Some(<<>>)]

\* quantity -1.
DesignNeg == [DesignB EXCEPT !.quantity = Some(-1)]

\* An empty first line (that still carries a font size) before a non-empty one.
DesignGap ==
  [DesignA EXCEPT !.quantity = Some(2),
                  !.textLines = Some(<<Line(<<>>, 20, 50, 30), Line(TxtA, 12, 50, 70)>>)]

\* A long first line anchored at the top left corner of the label and a second
\* line anchored at its bottom right corner.
DesignCorners ==
  [DesignB EXCEPT !.quantity = Some(2),
                  !.textLines = Some(<<Line(TxtLong, 30, 0, 0), Line(TxtB2, 12, 100, 100)>>)]

\* Designs for the long orders: box heights 80/7, 25 and 200/9.
DesignSquare == [DesignA EXCEPT !.width = Some(1), !.height = Some(1), !.quantity = Some(1)]
DesignNineFive == [DesignA EXCEPT !.width = Some(9), !.height = Some(5), !.quantity = Some(1)]

\* Orders: every order of one or two of the small designs, and longer orders of
\* one design or of two designs in alternation.
SmallDesigns ==
  {DesignA, DesignB, DesignBare, DesignZero, DesignNeg, DesignGap, DesignCorners}
UniformDesigns == {DesignA, DesignSquare, DesignNineFive}

Labels ==
  {<<d>> : d \in SmallDesigns}
    \cup {<<d, e>> : d \in SmallDesigns, e \in SmallDesigns}
    \cup {[i \in 1..n |-> d] : n \in 3..MaxCards, d \in UniformDesigns}
    \cup {[i \in 1..n |-> IF i % 2 = 1 THEN d ELSE e] :
            n \in 3..MaxCards, d \in UniformDesigns, e \in UniformDesigns}

Requests ==
  [refId : {Some(TxtRef)}, contactName : {None, Some(TxtName)}, contactEmail : {None},
   notes : {None, Some(TxtNote)}, labels : {Some(l) : l \in Labels}]
    \cup [refId : {None, Some(<<>>)}, contactName : {None}, contactEmail : {None},
          notes : {None}, labels : {Some(<<DesignA, DesignB>>)}]
    \cup [refId : {Some(TxtRef)}, contactName : {None}, contactEmail : {None},
          notes : {None}, labels : {None, Some(<<>>)}]

Revisions == {"pdf2", "pdf1", "html", "typed", "legacy"}

(***************************************************************************)
(* Line Normalizer, Row Expander and Tabular Exporter.                     *)
(***************************************************************************)
\* label.textLines.filter(t => t.text): the lines with non-empty text, in order.
RECURSIVE nonEmpty(_)
nonEmpty(lines) ==
  IF lines = <<>> THEN <<>>
  ELSE IF Head(lines).text # <<>> THEN <<Head(lines)>> \o nonEmpty(Tail(lines))
  ELSE nonEmpty(Tail(lines))

\* Mutant of lineCount: counts every line, empty or not.
lineCount_AllLines(label) ==
  IF label.textLines = None THEN 0 ELSE Len(label.textLines[1])

\* const count = label.textLines ? label.textLines.filter(t => t.text).length : 0;
lineCount(label) ==
  IF label.textLines = None THEN 0 ELSE Len(nonEmpty(label.textLines[1]))

\* let maxTextLines = 1; for (const label of labels) if (count > maxTextLines) ...
RECURSIVE findMaxTextLines(_, _)
findMaxTextLines(labels, acc) ==
  IF labels = <<>> THEN acc
  ELSE findMaxTextLines(Tail(labels),
                        IF lineCount(Head(labels)) > acc THEN lineCount(Head(labels)) ELSE acc)

\* Build headers: "ID #", then LINE i TEXT / LINE i TEXT SIZE, then the fixed columns.
RECURSIVE lineHeaders(_, _)
lineHeaders(i, m) ==
  IF i > m THEN <<>>
  ELSE <<<<"LINE", i, "TEXT">>, <<"LINE", i, "TEXT SIZE">>>> \o lineHeaders(i + 1, m)

buildHeaders(m) ==
  <<"ID #">> \o lineHeaders(1, m)
    \o <<"BACKGRND COLOR", "LETTER COLOR", "WIDTH (INCHES)", "HEIGHT (INCHES)",
         "CORNERS", "STICKY BACK", "COMMENTS">>

\* const line = label.textLines?.[i]; row.push(line?.text || "", line?.fontSize || "");
linePair(label, i) ==
  LET present == label.textLines # None /\ i <= Len(label.textLines[1])
      line == label.textLines[1][i]
  IN  <<IF present THEN line.text ELSE <<>>,
        IF present /\ line.fontSize # 0 THEN Some(line.fontSize) ELSE None>>

RECURSIVE linePairs(_, _, _)
linePairs(label, i, m) ==
  IF i > m THEN <<>> ELSE linePair(label, i) \o linePairs(label, i + 1, m)

\* label.corners.charAt(0).toUpperCase() + label.corners.slice(1)
capitalize(s) == IF s = <<>> THEN s ELSE <<UpperChar(s[1])>> \o Tail(s)

\* One data row of the revisions with dynamic columns.
buildRow(r, refId, label, m, notes) ==
  <<refId>> \o linePairs(label, 1, m)
    \o IF r = "typed"
       THEN <<getColorName(label.labelColor[1]), getColorName(label.textColor[1]),
              label.width, label.height, capitalize(label.corners[1]),
              IF label.stickyBack THEN TxtYes ELSE TxtNo, StrOr(notes, <<>>)>>
       ELSE <<getColorName(StrOr(label.labelColor, HexGreen)),
              getColorName(StrOr(label.textColor, HexWhite)),
              Some(NumOr(label.width, 7)), Some(NumOr(label.height, 2)),
              StrOr(label.corners, TxtSquared),
              IF label.stickyBack THEN TxtYes ELSE TxtNo, StrOr(notes, <<>>)>>

\* Mutant of loopCount: one row per design, whatever the quantity.
loopCount_Once(r, label) == 1

\* The number of iterations of for (let q = 0; q < qty; q++).
loopCount(r, label) ==
  LET qty == IF r \in {"typed", "legacy"}
             THEN (IF label.quantity = None THEN 0 ELSE label.quantity[1])
             ELSE NumOr(label.quantity, 1)
  IN  IF qty > 0 THEN qty ELSE 0

\* Row Expander: the rows one design contributes.
expand(r, refId, label, m, notes) ==
  [q \in 1..loopCount(r, label) |-> buildRow(r, refId, label, m, notes)]

RECURSIVE expandAll(_, _, _, _, _)
expandAll(r, refId, labels, m, notes) ==
  IF labels = <<>> THEN <<>>
  ELSE expand(r, refId, Head(labels), m, notes)
         \o expandAll(r, refId, Tail(labels), m, notes)

(***************************************************************************)
(* legacy: fixed VAR1..VAR6 columns.                                       *)
(***************************************************************************)
legacyColumns == 6

\* while (lines.length < 6) lines.push({ text: '', fontSize: 0, x: 50, y: 50 });
RECURSIVE legacyPad(_)
legacyPad(lines) ==
  IF Len(lines) >= legacyColumns THEN lines
  ELSE legacyPad(Append(lines, Line(<<>>, 0, 50, 50)))

legacyRow(label) ==
  LET lines == legacyPad(label.textLines[1])
  IN  <<label.height, label.width, label.colorName[1]>>
        \o [i \in 1..legacyColumns |-> lines[i].text]
        \o [i \in 1..legacyColumns |->
              IF lines[i].text # <<>> THEN Some(lines[i].fontSize) ELSE None]
        \o <<label.font, label.corners>>

legacyHeaders ==
  <<"Height", "Width", "Color", "VAR1", "VAR2", "VAR3", "VAR4", "VAR5", "VAR6",
    "VAR1 Size", "VAR2 Size", "VAR3 Size", "VAR4 Size", "VAR5 Size", "VAR6 Size",
    "Font", "Corners">>

RECURSIVE legacyRows(_)
legacyRows(labels) ==
  IF labels = <<>> THEN <<>>
  ELSE [q \in 1..loopCount("legacy", Head(labels)) |-> legacyRow(Head(labels))]
         \o legacyRows(Tail(labels))

\* excelData: the reference row, an empty row, the headers, then the data rows.
legacyTable(refId, labels) ==
  <<<<<<"Reference ID: ", refId>>>>, <<>>, legacyHeaders>> \o legacyRows(labels)

\* Rows of the table that precede the data rows.
headerRows(r) == IF r = "legacy" THEN 3 ELSE 1

(***************************************************************************)
(* Paginated Renderer (pdf1, pdf2) and Preview Document Builder.           *)
(***************************************************************************)
\* Mutant of truncate: the ellipsis is appended to short text too.
truncate_AlwaysEllipsis(t, n) ==
  (IF Len(t) > n THEN SubSeq(t, 1, n) ELSE t) \o <<".", ".", ".">>

\* t.length > n ? t.substring(0, n) + "..." : t
truncate(t, n) == IF Len(t) > n THEN SubSeq(t, 1, n) \o <<".", ".", ".">> ELSE t

\* const texts = (label.textLines || []).filter(t => t.text);
textsOf(label) == IF label.textLines = None THEN <<>> ELSE nonEmpty(label.textLines[1])

\* Mutant of primaryOf: the first line is taken, whether its text is empty or not.
primaryOf_FirstLine(label) ==
  IF label.textLines = None \/ label.textLines[1] = <<>> THEN TxtDash
  ELSE StrOr(Some(label.textLines[1][1].text), TxtDash)

\* const primary = texts[0]?.text || "—";
primaryOf(label) == IF textsOf(label) = <<>> THEN TxtDash ELSE textsOf(label)[1].text

\* The cursor where the first card of the first page is placed: the header lines,
\* the contact block (pdf2 only, before the table) and the table header.
firstCardY(r, request) ==
  IF r = "pdf2"
  THEN margin + 10 + 12
         + (IF StrTruthy(request.contactName) \/ StrTruthy(request.contactEmail)
            THEN 28 ELSE 0)
         + 7 + 5 + 10
  ELSE margin + 10 + 15 + 7 + 5 + 10

\* Mutant of pageReserve: the page check compares with the page height itself.
pageReserve_None(r) == 0

\* if (y > pageHeight - 50) { doc.addPage(); y = margin; }   (pdf1: pageHeight - 40)
pageReserve(r) == IF r = "pdf2" THEN 50 ELSE 40
needsNewPage(r, cy) == RLt(RInt(pageHeight - pageReserve(r)), cy)

\* The preview box of a card.
cardBox(r, label) ==
  IF r = "pdf2"
  THEN fitBox(NumOr(label.width, 7), NumOr(label.height, 2), maxBoxWidth, maxBoxHeight)
  ELSE [boxWidth |-> RInt(35), boxHeight |-> RInt(20)]

\* Mutant of cardAdvance: the inter-card spacing is forgotten.
cardAdvance_NoSpacing(r, box) ==
  IF r = "pdf2" THEN RMax(box.boxHeight, RInt(20)) ELSE box.boxHeight

\* Mutant of cardAdvance: no minimum row height, the advance is the box height
\* plus the spacing.
cardAdvance_NoMinimum(r, box) == RAdd(box.boxHeight, RInt(10))

\* y += Math.max(boxHeight, 20) + 10;   (pdf1: y += boxHeight + 10)
cardAdvance(r, box) ==
  IF r = "pdf2" THEN RAdd(RMax(box.boxHeight, RInt(20)), RInt(10))
  ELSE RAdd(box.boxHeight, RInt(10))

\* Mutant of scaledFontSize: the scaled size is not clamped.
scaledFontSize_NoClamp(fontSize, box) ==
  RMul(RInt(IF fontSize = 0 THEN 20 ELSE fontSize), RDiv(box.boxHeight, RInt(50)))

\* Math.max(4, Math.min(8, (textLine.fontSize || 20) * (boxHeight / 50)))
scaledFontSize(fontSize, box) ==
  RMax(RInt(4),
       RMin(RInt(8),
            RMul(RInt(IF fontSize = 0 THEN 20 ELSE fontSize),
                 RDiv(box.boxHeight, RInt(50)))))

\* Mutant of cardTexts: the lines are anchored at the cursor, not at the top of the
\* box (which is 5 above the cursor).
cardTexts_FromCursor(r, label, box, boxX, boxY, cy) ==
  LET texts == textsOf(label)
  IN  [i \in DOMAIN texts |->
         [text |-> truncate(texts[i].text, 12),
          textX |-> RAdd(boxX, RMul(Rat(texts[i].x, 100), box.boxWidth)),
          textY |-> RAdd(cy, RMul(Rat(texts[i].y, 100), box.boxHeight)),
          fontSize |-> scaledFontSize(texts[i].fontSize, box)]]

\* The text draws inside the preview box.
cardTexts(r, label, box, boxX, boxY, cy) ==
  LET texts == textsOf(label)
  IN  IF r = "pdf2"
      THEN [i \in DOMAIN texts |->
              [text |-> truncate(texts[i].text, 12),
               textX |-> RAdd(boxX, RMul(Rat(texts[i].x, 100), box.boxWidth)),
               textY |-> RAdd(boxY, RMul(Rat(texts[i].y, 100), box.boxHeight)),
               fontSize |-> scaledFontSize(texts[i].fontSize, box)]]
      ELSE [i \in 1..(IF Len(texts) < 2 THEN Len(texts) ELSE 2) |->
              [text |-> truncate(texts[i].text, 10),
               textX |-> RAdd(boxX, Rat(35, 2)),
               textY |-> RAdd(cy, RInt(2 + (i - 1) * 5)),
               fontSize |-> RInt(6)]]

\* One card, drawn with the cursor at cy on page pg.
drawCard(r, label, index, pg, cy) ==
  LET box == cardBox(r, label)
      boxX == RInt(margin)
      boxY == RSub(cy, RInt(5))
  IN  [index |-> index, page |-> pg, y |-> cy,
       boxX |-> boxX, boxY |-> boxY,
       boxWidth |-> box.boxWidth, boxHeight |-> box.boxHeight,
       texts |-> cardTexts(r, label, box, boxX, boxY, cy),
       primary |-> truncate(primaryOf(label), IF r = "pdf2" THEN 20 ELSE 25),
       width |-> label.width, height |-> label.height,
       font |-> StrOr(label.font, TxtCalibri),
       sticky |-> label.stickyBack,
       quantity |-> NumOr(label.quantity, 1)]

\* const notesHeight = Math.max(20, Math.ceil(notes.length / 80) * 6 + 15);
notesHeight(notes) ==
  LET lines == (Len(notes) + 79) \div 80
  IN  IF lines * 6 + 15 > 20 THEN lines * 6 + 15 ELSE 20

\* One summary block of the markup preview (html, typed, legacy).
previewCard(r, label, index) ==
  [index |-> index,
   primary |-> IF r = "legacy" /\ textsOf(label) = <<>>
               THEN <<"E", "m", "p", "t", "y">> ELSE primaryOf(label),
   texts |-> [i \in 1..(IF r = "legacy" THEN Len(textsOf(label))
                        ELSE IF r = "typed" /\ Len(textsOf(label)) >= 3 THEN 3
                        ELSE IF Len(textsOf(label)) >= 2 THEN 2
                        ELSE Len(textsOf(label))) |-> textsOf(label)[i].text],
   fontSizes |-> IF r = "legacy"
                 THEN [i \in DOMAIN textsOf(label) |->
                         RMax(RInt(8),
                              RMul(RInt(textsOf(label)[i].fontSize),
                                   legacyBox(label.width[1], label.height[1]).scale))]
                 ELSE <<>>,
   width |-> label.width, height |-> label.height,
   sticky |-> label.stickyBack,
   quantity |-> IF r = "html" THEN Some(NumOr(label.quantity, 1)) ELSE label.quantity]

(***************************************************************************)
(* What makes a revision throw while it builds its artifacts.              *)
(***************************************************************************)
\* typed: l.textLines.filter throws on an absent textLines; in the row loop
\* getColorName(undefined) and undefined.charAt throw for a design that has rows.
typedThrows(labels) ==
  \/ \E i \in DOMAIN labels : labels[i].textLines = None
  \/ \E i \in DOMAIN labels :
       /\ loopCount("typed", labels[i]) > 0
       /\ \/ labels[i].labelColor = None
          \/ labels[i].textColor = None
          \/ labels[i].corners = None

\* typed: label.labelColor.toUpperCase() in the markup template.
previewThrows(r, labels) ==
  r = "typed" /\ \E i \in DOMAIN labels : labels[i].labelColor = None

\* legacy: [...label.textLines] and label.color.name throw on absent properties.
legacyThrows(labels) ==
  \E i \in DOMAIN labels : labels[i].textLines = None \/ labels[i].colorName = None

buildThrows(r, labels) ==
  IF r = "typed" THEN typedThrows(labels)
  ELSE IF r = "legacy" THEN legacyThrows(labels)
  ELSE FALSE

\* labels.reduce((sum, l) => sum + (l.quantity || 1), 0); typed: sum + l.quantity,
\* which is NaN (None) once a quantity is absent; legacy: counts the pushed rows.
RECURSIVE sumQuantities(_, _)
sumQuantities(r, labels) ==
  IF labels = <<>> THEN 0
  ELSE (IF r = "typed" THEN Head(labels).quantity[1]
        ELSE IF r = "legacy" THEN loopCount(r, Head(labels))
        ELSE NumOr(Head(labels).quantity, 1))
       + sumQuantities(r, Tail(labels))

computeTotalLabels(r, labels) ==
  IF r = "typed" /\ \E i \in DOMAIN labels : labels[i].quantity = None
  THEN None
  ELSE Some(sumQuantities(r, labels))

(***************************************************************************)
(* The handler.                                                            *)
(***************************************************************************)
Envs == [credentials : BOOLEAN, zapierWebhook : BOOLEAN]

IsPdf(r) == r \in {"pdf1", "pdf2"}

labelsOf(request) == request.labels[1]

InitPure ==
  /\ fitIn = None /\ fitOut = None
  /\ colorIn = None /\ colorOut = None
  /\ truncIn = None /\ truncOut = None

InitHandler ==
  /\ rev \in Revisions
  /\ req \in Requests
  /\ env \in Envs
  /\ pc = "start"
  /\ maxTextLines = 0
  /\ rows = <<>>
  /\ totalLabels = None
  /\ y = RInt(0)
  /\ page = 0
  /\ li = 0
  /\ cards = <<>>
  /\ blocks = <<>>
  /\ puts = <<>>
  /\ hooks = <<>>
  /\ response = None

Init == InitHandler /\ InitPure

\* The error of the outer catch, of the upload failure and of the credentials check.
catchMessage(r) == IF r \in {"typed", "legacy"} THEN "Failed to process order" ELSE "Failed"
uploadMessage(r) == IF r = "typed" THEN "Failed to upload files" ELSE catchMessage(r)
credentialsMessage(r) ==
  IF r = "typed" THEN "Server configuration error" ELSE "Missing AWS credentials"

Fail(status, message) ==
  /\ response' = Some([status |-> status, error |-> message])
  /\ pc' = "done"

\* Mutant of Validate: an empty labels array is accepted.
Validate_AcceptsEmptyLabels ==
  /\ pc = "start"
  /\ IF ~StrTruthy(req.refId) \/ req.labels = None
     THEN Fail(400, "Missing required fields")
     ELSE pc' = "env" /\ UNCHANGED response
  /\ UNCHANGED <<rev, req, env, maxTextLines, rows, totalLabels, y, page, li,
                 cards, blocks, puts, hooks>>
  /\ UNCHANGED pureVars

\* if (!refId || !labels || labels.length === 0) return 400
Validate ==
  /\ pc = "start"
  /\ IF ~StrTruthy(req.refId) \/ req.labels = None \/ req.labels[1] = <<>>
     THEN Fail(400, "Missing required fields")
     ELSE pc' = "env" /\ UNCHANGED response
  /\ UNCHANGED <<rev, req, env, maxTextLines, rows, totalLabels, y, page, li,
                 cards, blocks, puts, hooks>>
  /\ UNCHANGED pureVars

\* if (!awsKey || !awsSecret) return 500; legacy builds its client without a check.
CheckEnv ==
  /\ pc = "env"
  /\ IF rev # "legacy" /\ ~env.credentials
     THEN Fail(500, credentialsMessage(rev))
     ELSE pc' = "excel" /\ UNCHANGED response
  /\ UNCHANGED <<rev, req, env, maxTextLines, rows, totalLabels, y, page, li,
                 cards, blocks, puts, hooks>>
  /\ UNCHANGED pureVars

\* Steps 4 to 6: maxTextLines, headers, rows, totalLabels.
BuildExcel ==
  /\ pc = "excel"
  /\ IF buildThrows(rev, labelsOf(req))
     THEN /\ Fail(500, catchMessage(rev))
          /\ UNCHANGED <<maxTextLines, rows, totalLabels>>
     ELSE /\ maxTextLines' = IF rev = "legacy" THEN 0
                             ELSE findMaxTextLines(labelsOf(req), 1)
          /\ rows' = IF rev = "legacy"
                     THEN legacyTable(req.refId[1], labelsOf(req))
                     ELSE <<buildHeaders(maxTextLines')>>
                            \o expandAll(rev, req.refId[1], labelsOf(req),
                                         maxTextLines', req.notes)
          /\ totalLabels' = computeTotalLabels(rev, labelsOf(req))
          /\ pc' = IF IsPdf(rev) THEN "pdf" ELSE "html"
          /\ UNCHANGED response
  /\ UNCHANGED <<rev, req, env, y, page, li, cards, blocks, puts, hooks>>
  /\ UNCHANGED pureVars

\* new jsPDF(); the header lines, the contact block (pdf2) and the table header.
StartPdf ==
  /\ pc = "pdf"
  /\ y' = RInt(firstCardY(rev, req))
  /\ page' = 0
  /\ li' = 1
  /\ blocks' = IF rev = "pdf2"
                  /\ (StrTruthy(req.contactName) \/ StrTruthy(req.contactEmail))
               THEN <<[kind |-> "contact", page |-> 0,
                       top |-> RInt(margin + 10 + 12), height |-> RInt(20)]>>
               ELSE <<>>
  /\ pc' = "cards"
  /\ UNCHANGED <<rev, req, env, maxTextLines, rows, totalLabels, cards, puts,
                 hooks, response>>
  /\ UNCHANGED pureVars

\* Mutant of PlaceCard: one card per requested label (quantity) instead of one
\* per design.
PlaceCard_PerQuantity ==
  /\ pc = "cards"
  /\ li <= Len(labelsOf(req))
  /\ LET label == labelsOf(req)[li]
         brk == needsNewPage(rev, y)
         cy == IF brk THEN RInt(margin) ELSE y
         pg == IF brk THEN page + 1 ELSE page
     IN  /\ cards' = cards \o [q \in 1..NumOr(label.quantity, 1) |->
                                 drawCard(rev, label, li, pg, cy)]
         /\ y' = RAdd(cy, cardAdvance(rev, cardBox(rev, label)))
         /\ page' = pg
  /\ li' = li + 1
  /\ UNCHANGED <<rev, req, env, pc, maxTextLines, rows, totalLabels, blocks, puts,
                 hooks, response>>
  /\ UNCHANGED pureVars

\* Mutant of PlaceCard: the page check is made after the advance, at the end of
\* the iteration.
PlaceCard_BreakAfter ==
  /\ pc = "cards"
  /\ li <= Len(labelsOf(req))
  /\ LET label == labelsOf(req)[li]
         ny == RAdd(y, cardAdvance(rev, cardBox(rev, label)))
     IN  /\ cards' = Append(cards, drawCard(rev, label, li, page, y))
         /\ y' = IF needsNewPage(rev, ny) THEN RInt(margin) ELSE ny
         /\ page' = IF needsNewPage(rev, ny) THEN page + 1 ELSE page
  /\ li' = li + 1
  /\ UNCHANGED <<rev, req, env, pc, maxTextLines, rows, totalLabels, blocks, puts,
                 hooks, response>>
  /\ UNCHANGED pureVars

\* One iteration of for (const label of labels): the page check, the card, the advance.
PlaceCard ==
  /\ pc = "cards"
  /\ li <= Len(labelsOf(req))
  /\ LET label == labelsOf(req)[li]
         brk == needsNewPage(rev, y)
         cy == IF brk THEN RInt(margin) ELSE y
         pg == IF brk THEN page + 1 ELSE page
     IN  /\ cards' = Append(cards, drawCard(rev, label, li, pg, cy))
         /\ y' = RAdd(cy, cardAdvance(rev, cardBox(rev, label)))
         /\ page' = pg
  /\ li' = li + 1
  /\ UNCHANGED <<rev, req, env, pc, maxTextLines, rows, totalLabels, blocks, puts,
                 hooks, response>>
  /\ UNCHANGED pureVars

\* After the loop: the contact block (pdf1) and the notes block; doc.output().
FinishPdf ==
  /\ pc = "cards"
  /\ li > Len(labelsOf(req))
  /\ LET hasContact == rev = "pdf1"
                         /\ (StrTruthy(req.contactName) \/ StrTruthy(req.contactEmail))
         yc == IF hasContact THEN RAdd(y, RInt(10)) ELSE y
         contact == IF hasContact
                    THEN <<[kind |-> "contact", page |-> page,
                            top |-> RSub(yc, RInt(5)), height |-> RInt(25)]>>
                    ELSE <<>>
         y1 == IF hasContact THEN RAdd(yc, RInt(30)) ELSE y
         hasNotes == StrTruthy(req.notes)
         y2 == IF hasNotes THEN RAdd(y1, RInt(IF rev = "pdf2" THEN 10 ELSE 5)) ELSE y1
         notes == IF hasNotes
                  THEN <<[kind |-> "notes", page |-> page,
                          top |-> RSub(y2, RInt(5)),
                          height |-> RInt(notesHeight(req.notes[1]))]>>
                  ELSE <<>>
     IN  /\ blocks' = blocks \o contact \o notes
         /\ y' = y2
  /\ pc' = "upload1"
  /\ UNCHANGED <<rev, req, env, maxTextLines, rows, totalLabels, page, li, cards,
                 puts, hooks, response>>
  /\ UNCHANGED pureVars

\* The markup document of html, typed and legacy: one block per design.
BuildHtml ==
  /\ pc = "html"
  /\ IF previewThrows(rev, labelsOf(req))
     THEN Fail(500, catchMessage(rev)) /\ UNCHANGED cards
     ELSE /\ cards' = [i \in DOMAIN labelsOf(req) |->
                         previewCard(rev, labelsOf(req)[i], i)]
          /\ pc' = "upload1"
          /\ UNCHANGED response
  /\ UNCHANGED <<rev, req, env, maxTextLines, rows, totalLabels, y, page, li,
                 blocks, puts, hooks>>
  /\ UNCHANGED pureVars

\* Mutant of UploadXlsx: the put of the spreadsheet is not awaited, the handler
\* goes on before the write has completed.
UploadXlsx_Unawaited ==
  /\ pc = "upload1"
  /\ pc' = "upload2"
  /\ UNCHANGED <<rev, req, env, maxTextLines, rows, totalLabels, y, page, li,
                 cards, blocks, puts, hooks, response>>
  /\ UNCHANGED pureVars

\* await s3.send(new PutObjectCommand(...)) for the spreadsheet; a rejection is
\* caught (typed: by the inner try, the others: by the outer try) and answered 500.
UploadXlsx ==
  /\ pc = "upload1"
  /\ \E ok \in BOOLEAN :
       IF ok
       THEN puts' = Append(puts, "xlsx") /\ pc' = "upload2" /\ UNCHANGED response
       ELSE Fail(500, uploadMessage(rev)) /\ UNCHANGED puts
  /\ UNCHANGED <<rev, req, env, maxTextLines, rows, totalLabels, y, page, li,
                 cards, blocks, hooks>>
  /\ UNCHANGED pureVars

\* Mutant of UploadDoc: a rejected put is ignored and the handler goes on.
UploadDoc_IgnoresFailure ==
  /\ pc = "upload2"
  /\ \E ok \in BOOLEAN :
       /\ puts' = IF ok THEN Append(puts, IF IsPdf(rev) THEN "pdf" ELSE "html") ELSE puts
       /\ pc' = "hook"
       /\ UNCHANGED response
  /\ UNCHANGED <<rev, req, env, maxTextLines, rows, totalLabels, y, page, li,
                 cards, blocks, hooks>>
  /\ UNCHANGED pureVars

\* The second put: the PDF or the markup document.
UploadDoc ==
  /\ pc = "upload2"
  /\ \E ok \in BOOLEAN :
       IF ok
       THEN /\ puts' = Append(puts, IF IsPdf(rev) THEN "pdf" ELSE "html")
            /\ pc' = "hook"
            /\ UNCHANGED response
       ELSE Fail(500, uploadMessage(rev)) /\ UNCHANGED puts
  /\ UNCHANGED <<rev, req, env, maxTextLines, rows, totalLabels, y, page, li,
                 cards, blocks, hooks>>
  /\ UNCHANGED pureVars

\* The webhook.  legacy always has a URL (a default is built in); the others call
\* only when ZAPIER_WEBHOOK_URL is set.  Only typed wraps the call in its own try:
\* elsewhere a rejected fetch reaches the outer catch.  A non-2xx answer never throws.
Webhook ==
  /\ pc = "hook"
  /\ IF rev = "legacy" \/ env.zapierWebhook
     THEN \E outcome \in {"ok", "status", "throw"} :
            /\ hooks' = Append(hooks, outcome)
            /\ IF outcome = "throw" /\ rev # "typed"
               THEN Fail(500, catchMessage(rev))
               ELSE pc' = "respond" /\ UNCHANGED response
     ELSE pc' = "respond" /\ UNCHANGED <<hooks, response>>
  /\ UNCHANGED <<rev, req, env, maxTextLines, rows, totalLabels, y, page, li,
                 cards, blocks, puts>>
  /\ UNCHANGED pureVars

\* The success response.
Respond ==
  /\ pc = "respond"
  /\ response' =
       Some([status |-> 200, refId |-> req.refId[1],
             urls |-> IF rev = "legacy" THEN <<>> ELSE puts,
             totalLabels |-> IF rev \in {"typed", "legacy"}
                             THEN Some(totalLabels) ELSE None])
  /\ pc' = "done"
  /\ UNCHANGED <<rev, req, env, maxTextLines, rows, totalLabels, y, page, li,
                 cards, blocks, puts, hooks>>
  /\ UNCHANGED pureVars

Next ==
  \/ Validate
  \/ CheckEnv
  \/ BuildExcel
  \/ StartPdf
  \/ PlaceCard
  \/ FinishPdf
  \/ BuildHtml
  \/ UploadXlsx
  \/ UploadDoc
  \/ Webhook
  \/ Respond

Spec == Init /\ [][Next]_vars

(***************************************************************************)
(* The geometry scaler and the color resolver on their own.                *)
(***************************************************************************)
IdleHandler ==
  /\ rev = "pdf2"
  /\ req = [refId |-> None, contactName |-> None, contactEmail |-> None,
            notes |-> None, labels |-> None]
  /\ env = [credentials |-> FALSE, zapierWebhook |-> FALSE]
  /\ pc = "idle"
  /\ maxTextLines = 0
  /\ rows = <<>>
  /\ totalLabels = None
  /\ y = RInt(0)
  /\ page = 0
  /\ li = 0
  /\ cards = <<>>
  /\ blocks = <<>>
  /\ puts = <<>>
  /\ hooks = <<>>
  /\ response = None

\* The maxima the revisions use: pdf2's preview box and legacy's label visual.
MaxBoxes == {<<maxBoxWidth, maxBoxHeight>>, <<240, 60>>}

InitFit ==
  /\ IdleHandler
  /\ fitIn \in {Some([dw |-> w, dh |-> h, maxW |-> m[1], maxH |-> m[2]]) :
                  w \in 1..MaxDim, h \in 1..MaxDim, m \in MaxBoxes}
  /\ fitOut = None
  /\ colorIn = None /\ colorOut = None
  /\ truncIn = None /\ truncOut = None

\* pdf2's box for a design of fitIn's size.
ApplyFitBox ==
  /\ fitIn # None /\ fitOut = None
  /\ fitIn[1].maxW = maxBoxWidth
  /\ fitOut' = Some(fitBox(fitIn[1].dw, fitIn[1].dh, fitIn[1].maxW, fitIn[1].maxH))
  /\ UNCHANGED <<fitIn, colorIn, colorOut, truncIn, truncOut>>
  /\ UNCHANGED handlerVars

\* legacy's label visual for a design of fitIn's size.
ApplyLegacyBox ==
  /\ fitIn # None /\ fitOut = None
  /\ fitIn[1].maxW = 240
  /\ fitOut' = Some([boxWidth |-> legacyBox(fitIn[1].dw, fitIn[1].dh).boxWidth,
                     boxHeight |-> legacyBox(fitIn[1].dw, fitIn[1].dh).boxHeight])
  /\ UNCHANGED <<fitIn, colorIn, colorOut, truncIn, truncOut>>
  /\ UNCHANGED handlerVars

NextFit == ApplyFitBox \/ ApplyLegacyBox

SpecFit == InitFit /\ [][NextFit]_vars

\* Every way of writing s with some of its letters in upper case.
CaseVariants(s) ==
  {[i \in DOMAIN s |-> IF i \in U THEN UpperChar(s[i]) ELSE s[i]] : U \in SUBSET DOMAIN s}

ColorInputs ==
  UNION {CaseVariants(e[1]) : e \in colors}
    \cup {e[2] : e \in colors}
    \cup {HexUnknown, <<>>, <<"#", "f", "f", "f">>, <<"r", "e", "d">>,
          KeyConstructor, KeyProto, toUpperCase(KeyConstructor)}

InitColor ==
  /\ IdleHandler
  /\ colorIn \in {Some(c) : c \in ColorInputs}
  /\ colorOut = None
  /\ fitIn = None /\ fitOut = None
  /\ truncIn = None /\ truncOut = None

\* getColorName(colorIn), then getColorName of that result.
ApplyColor ==
  /\ colorIn # None /\ Len(colorOut) < 2
  /\ colorOut' = Append(colorOut,
                        getColorName(IF colorOut = <<>> THEN colorIn[1] ELSE colorOut[1]))
  /\ UNCHANGED <<colorIn, fitIn, fitOut, truncIn, truncOut>>
  /\ UNCHANGED handlerVars

NextColor == ApplyColor

SpecColor == InitColor /\ [][NextColor]_vars

\* The budgets the renderers truncate to: 12 and 20 (pdf2), 10 and 25 (pdf1).
Budgets == {10, 12, 20, 25}

\* Texts of every length up to MaxText: letters only, or with full stops from the
\* tenth character on (so that a cut can fall inside a run of full stops).
TruncTexts ==
  {[i \in 1..n |-> "a"] : n \in 0..MaxText}
    \cup {[i \in 1..n |-> IF i < 10 THEN "a" ELSE "."] : n \in 10..MaxText}

InitTrunc ==
  /\ IdleHandler
  /\ truncIn \in {Some([t |-> t, n |-> n]) : t \in TruncTexts, n \in Budgets}
  /\ truncOut = None
  /\ fitIn = None /\ fitOut = None
  /\ colorIn = None /\ colorOut = None

\* truncate(t, n), then truncate of that result with the same budget.
ApplyTruncate ==
  /\ truncIn # None /\ Len(truncOut) < 2
  /\ truncOut' = Append(truncOut,
                        truncate(IF truncOut = <<>> THEN truncIn[1].t ELSE truncOut[1],
                                 truncIn[1].n))
  /\ UNCHANGED <<truncIn, fitIn, fitOut, colorIn, colorOut>>
  /\ UNCHANGED handlerVars

NextTrunc == ApplyTruncate

SpecTrunc == InitTrunc /\ [][NextTrunc]_vars

(***************************************************************************)
(* Properties of the table.                                                *)
(***************************************************************************)
\* The table has been built (it always holds its header row once built).
TableBuilt == rows # <<>>

\* The revisions that compute maxTextLines and write LINE i columns.
DynamicColumns(r) == r \in {"pdf1", "pdf2", "html", "typed"}

\* max(1, quantity), an absent quantity counting as 1.
DeclaredRows(label) ==
  IF label.quantity = None \/ label.quantity[1] < 1 THEN 1 ELSE label.quantity[1]

RECURSIVE DeclaredRowsUpTo(_, _)
DeclaredRowsUpTo(labels, n) ==
  IF n = 0 THEN 0 ELSE DeclaredRows(labels[n]) + DeclaredRowsUpTo(labels, n - 1)

\* The number of lines of a design whose text is not empty.
NonEmptyLines(label) ==
  IF label.textLines = None THEN 0
  ELSE Cardinality({j \in DOMAIN label.textLines[1] : label.textLines[1][j].text # <<>>})

\* max(1, the largest NonEmptyLines over the designs).
ColumnBudget(labels) ==
  LET counts == {NonEmptyLines(labels[i]) : i \in DOMAIN labels} \cup {1}
  IN  CHOOSE c \in counts : \A d \in counts : d <= c

\* The (text, size) pairs of a data row of a revision with dynamic columns.
PairCount(row) == (Len(row) - 8) \div 2
PairText(row, i) == row[2 * i]
PairSize(row, i) == row[2 * i + 1]

\* C1 (as claimed): every design d of the order contributes exactly
\* max(1, d.quantity) rows to the table, all identical; a design whose quantity
\* is absent, zero or negative contributes exactly one row.  Stated for the
\* current revision: design i's rows are where the claimed counts put them.
C1_RowsPerDesign ==
  (rev = "pdf2" /\ TableBuilt) =>
    \A i \in DOMAIN labelsOf(req) :
      \A k \in 1..DeclaredRows(labelsOf(req)[i]) :
        LET at == 1 + DeclaredRowsUpTo(labelsOf(req), i - 1) + k
        IN  /\ at <= Len(rows)
            /\ rows[at] = buildRow(rev, req.refId[1], labelsOf(req)[i],
                                   maxTextLines, req.notes)

\* C2 (as claimed): the table has exactly 1 + (sum over the designs of
\* max(1, quantity)) rows.  Stated for the current revision.
C2_RowCount ==
  (rev = "pdf2" /\ TableBuilt) =>
    Len(rows) = 1 + DeclaredRowsUpTo(labelsOf(req), Len(labelsOf(req)))

\* C3 (as claimed): in every revision, every data row has exactly columnBudget
\* (text, size) pairs, columnBudget being max(1, the largest number of non-empty
\* lines of a design).
C3_EveryRowHasBudgetPairs ==
  TableBuilt =>
    \A k \in (headerRows(rev) + 1)..Len(rows) :
      (IF rev = "legacy" THEN (Len(rows[k]) - 5) \div 2 ELSE PairCount(rows[k]))
        = ColumnBudget(labelsOf(req))

\* C3 (amended): in the revisions that write LINE i columns, maxTextLines is
\* max(1, the largest number of non-empty lines of a design) and the header and
\* every data row have exactly maxTextLines (text, size) pairs (1 + 2 * maxTextLines
\* + 7 cells); in the VAR1..VAR6 revision every data row has exactly 6 text cells
\* and 6 size cells (3 + 6 + 6 + 2 cells), whatever the order.
C3_ColumnBudget ==
  TableBuilt =>
    IF DynamicColumns(rev)
    THEN /\ maxTextLines = ColumnBudget(labelsOf(req))
         /\ \A k \in 1..Len(rows) : Len(rows[k]) = 1 + 2 * maxTextLines + 7
    ELSE \A k \in (headerRows(rev) + 1)..Len(rows) :
           Len(rows[k]) = 3 + 2 * legacyColumns + 2

\* C3 witness: the table of a two-line design followed by a one-line design of
\* quantity 3: the budget is 2, and the last row, of the one-line design, has two
\* pairs.
C3_Witness ==
  /\ TableBuilt
  /\ rev = "pdf2"
  /\ labelsOf(req) = <<DesignB, DesignA>>
  /\ maxTextLines = 2
  /\ Len(rows) = 5
  /\ PairCount(rows[5]) = 2

\* C4 (as claimed): in every data row and for each i up to columnBudget, the pair
\* is the line's text and font size when design line i exists with non-empty
\* text, and otherwise an empty text with the empty size marker.  Stated for the
\* current revision, on the rows of a one-design order.
C4_PairContents ==
  (rev = "pdf2" /\ TableBuilt /\ Len(labelsOf(req)) = 1) =>
    \A k \in 2..Len(rows) : \A i \in 1..maxTextLines :
      LET label == labelsOf(req)[1]
          has == /\ label.textLines # None
                 /\ i <= Len(label.textLines[1])
                 /\ label.textLines[1][i].text # <<>>
      IN  IF has
          THEN /\ PairText(rows[k], i) = label.textLines[1][i].text
               /\ PairSize(rows[k], i) = Some(label.textLines[1][i].fontSize)
          ELSE /\ PairText(rows[k], i) = <<>>
               /\ PairSize(rows[k], i) = None

\* The order of the end-to-end example.
ExampleOrder == <<DesignA, DesignB>>

\* C5: the order of design A (7 x 2, quantity 3, "ACME") and design B (4 x 2,
\* quantity 1, "LOT 7", "B2") yields a table of 5 rows, a columnBudget of 2 and,
\* once the second artifact is rendered, exactly 2 cards (in every revision that
\* writes LINE i columns).
C5_EndToEndExample ==
  (DynamicColumns(rev) /\ req.labels = Some(ExampleOrder)) =>
    /\ TableBuilt => (Len(rows) = 5 /\ maxTextLines = 2)
    /\ pc \in {"upload1", "upload2", "hook", "respond"} => Len(cards) = 2

\* C5 witness: the example order, rendered by the current revision.
C5_Witness ==
  /\ rev = "pdf2"
  /\ req.labels = Some(ExampleOrder)
  /\ pc = "upload1"
  /\ Len(rows) = 5 /\ Len(cards) = 2

\* The PDF is complete.
PdfDone == IsPdf(rev) /\ pc \in {"upload1", "upload2", "hook", "respond"}

\* C6: the paginated renderer draws exactly one card per design, in design order,
\* whatever the quantities: while it runs, the cards drawn are those of the first
\* li - 1 designs, and at the end there is one card per design.
C6_OneCardPerDesign ==
  /\ (IsPdf(rev) /\ pc = "cards") => Len(cards) = li - 1
  /\ PdfDone => Len(cards) = Len(labelsOf(req))
  /\ IsPdf(rev) =>
       \A i \in DOMAIN cards :
         /\ cards[i].index = i
         /\ cards[i].width = labelsOf(req)[i].width
         /\ cards[i].quantity = NumOr(labelsOf(req)[i].quantity, 1)

\* C6 witness: a finished PDF of two designs of quantity 3 and -1: two cards,
\* while the table holds three data rows.
C6_Witness ==
  /\ PdfDone
  /\ labelsOf(req) = <<DesignA, DesignNeg>>
  /\ Len(cards) = 2
  /\ Len(rows) = 4

(***************************************************************************)
(* Properties of the paginated renderer.                                   *)
(***************************************************************************)
\* The cursor advance the code gives a card of this box height: max(height, 20) + 10
\* in the current revision, the fixed 20 + 10 in the earlier one.
AdvanceOf(r, c) ==
  IF r = "pdf2"
  THEN (IF RLt(c.boxHeight, RInt(20)) THEN RInt(30) ELSE RAdd(c.boxHeight, RInt(10)))
  ELSE RInt(30)

\* The lowest point a card draws at: its box, its texts, the size line at y + 5
\* and the sticky-back badge (5 high, at y + 8 in the current revision, y + 7 before).
CardBottom(r, c) ==
  LET box == RAdd(c.boxY, c.boxHeight)
      size == RAdd(c.y, RInt(5))
      badge == IF c.sticky THEN RAdd(c.y, RInt(IF r = "pdf2" THEN 13 ELSE 12)) ELSE c.y
  IN  RMax(box, RMax(size, badge))

\* C7: before placing a card the renderer breaks to a new page, resetting the
\* cursor to the top margin, whenever placing it at the cursor would carry the
\* cursor past the page height, and places the card on the fresh page: every card
\* is placed where cursor + advance stays within the page, a card that opens a
\* page sits at the top margin of the next page, a card that does not follows its
\* predecessor by that card's advance, and everything a card draws (box, texts,
\* size line, badge) lies between the top and the bottom of its page.
C7_NoCardCrossesPage ==
  IsPdf(rev) =>
    \A i \in DOMAIN cards :
      LET c == cards[i]
      IN  /\ RLe(RAdd(c.y, AdvanceOf(rev, c)), RInt(pageHeight))
          /\ RLe(RInt(0), c.boxY)
          /\ RLe(CardBottom(rev, c), RInt(pageHeight))
          /\ \A t \in DOMAIN c.texts :
               RLe(RInt(0), c.texts[t].textY) /\ RLe(c.texts[t].textY, RInt(pageHeight))
          /\ IF i = 1
             THEN c.page = 0 /\ c.y = RInt(firstCardY(rev, req))
             ELSE \/ /\ c.page = cards[i - 1].page
                     /\ c.y = RAdd(cards[i - 1].y, AdvanceOf(rev, cards[i - 1]))
                  \/ /\ c.page = cards[i - 1].page + 1
                     /\ c.y = RInt(margin)

\* C7 witness: the current revision has broken to a second page: a card at the top
\* margin of page 1 follows a card of page 0.
C7_Witness ==
  /\ rev = "pdf2"
  /\ \E i \in DOMAIN cards :
       /\ i > 1
       /\ cards[i].page = 1
       /\ cards[i - 1].page = 0
       /\ cards[i].y = RInt(margin)

\* Every card of the order has the same height.
UniformCards ==
  /\ req.labels # None
  /\ \A i \in DOMAIN labelsOf(req) : labelsOf(req)[i] = labelsOf(req)[1]

CardsOnPage(p) == Cardinality({i \in DOMAIN cards : cards[i].page = p})

\* C8 (as claimed): there is a usable height H such that, for cards of one height
\* h, every page the renderer has left behind holds floor(H / h) cards (h read as
\* the box height or as the box height plus the spacing, H any whole number up to
\* the page height).
C8_FloorOfUsableHeight ==
  (rev = "pdf2" /\ UniformCards /\ cards # <<>>) =>
    \E H \in 1..pageHeight :
      \E h \in {cards[1].boxHeight, AdvanceOf(rev, cards[1])} :
        \A p \in 0..(page - 1) : CardsOnPage(p) = RFloor(RDiv(RInt(H), h))

\* The cursor of the first card of page p.
PageStart(p) == IF p = 0 THEN firstCardY(rev, req) ELSE margin

\* The threshold of the page check: 50 below the page height in the current
\* revision, 40 below it in the earlier one.
BreakThreshold(r) == IF r = "pdf2" THEN pageHeight - 50 ELSE pageHeight - 40

\* C8 (amended): a page is left when the cursor has passed pageHeight - 50, so for
\* cards of one advance h = max(boxHeight, 20) + 10 a page whose first card sits at
\* cursor s holds floor((pageHeight - 50 - s) / h) + 1 cards before the break
\* (s is the top margin on every page but the first, where the header and the
\* contact block come first); no card is dropped, and no box is higher than 25, so
\* no card is higher than a page.
C8_CardsPerPage ==
  (IsPdf(rev) /\ UniformCards /\ cards # <<>>) =>
    /\ \A p \in 0..(page - 1) :
         CardsOnPage(p)
           = RFloor(RDiv(RInt(BreakThreshold(rev) - PageStart(p)),
                         AdvanceOf(rev, cards[1]))) + 1
    /\ \A i \in DOMAIN cards : RLe(cards[i].boxHeight, RInt(25))
    /\ \A i \in 1..(li - 1) : \E k \in DOMAIN cards : cards[k].index = i

\* C8 witness: sixteen identical 7 x 2 designs without a contact block: seven
\* cards on the first page, eight on the second, the sixteenth on the third.
C8_Witness ==
  /\ rev = "pdf2"
  /\ UniformCards
  /\ page = 2
  /\ CardsOnPage(0) = 7
  /\ CardsOnPage(1) = 8
  /\ CardsOnPage(2) = 1

(***************************************************************************)
(* Properties of the geometry scaler and the color resolver.               *)
(***************************************************************************)
\* C9: for positive design and maximum sizes the fitted box is no wider than
\* maxWidth, no higher than maxHeight, and has the design's aspect ratio
\* (renderWidth * designHeight = renderHeight * designWidth).
C9_FitBoxWithinBounds ==
  fitOut # None =>
    LET i == fitIn[1]
        o == fitOut[1]
    IN  /\ RLe(o.boxWidth, RInt(i.maxW))
        /\ RLe(o.boxHeight, RInt(i.maxH))
        /\ RLt(RInt(0), o.boxWidth) /\ RLt(RInt(0), o.boxHeight)
        /\ o.boxWidth[1] * o.boxHeight[2] * i.dh = o.boxHeight[1] * o.boxWidth[2] * i.dw

\* C9 witness: the 7 x 2 design is width-constrained in the 40 x 25 preview box:
\* 40 wide, 80/7 high.
C9_Witness ==
  /\ fitIn = Some([dw |-> 7, dh |-> 2, maxW |-> 40, maxH |-> 25])
  /\ fitOut = Some([boxWidth |-> <<40, 1>>, boxHeight |-> <<80, 7>>])

\* C10 (as claimed): getColorName returns the canonical name when the input,
\* letter case aside, is a palette hex, and returns the input unchanged for any
\* other input; "#22C55E" gives "Green" and "#123456" gives "#123456".
C10_ResolveColorName ==
  colorOut # <<>> =>
    LET x == colorIn[1]
        r == colorOut[1]
    IN  /\ IF \E e \in colors : e[1] = toLowerCase(x)
           THEN \E e \in colors : e[1] = toLowerCase(x) /\ r = e[2]
           ELSE r = x
        /\ x = HexGreenMixed => r = <<"G", "r", "e", "e", "n">>
        /\ x = HexUnknown => r = HexUnknown

\* C11: getColorName is idempotent on the palette: for every palette hex in any
\* letter case, applying getColorName to its result gives that result again.
C11_ColorNameIdempotent ==
  (Len(colorOut) = 2 /\ \E e \in colors : e[1] = toLowerCase(colorIn[1])) =>
    colorOut[2] = colorOut[1]

\* C11 witness: "#22C55E" resolved to "Green", and "Green" resolved to "Green".
C11_Witness ==
  /\ colorIn = Some(HexGreenMixed)
  /\ colorOut = <<<<"G", "r", "e", "e", "n">>, <<"G", "r", "e", "e", "n">>>>

\* C12: truncation is idempotent and leaves short text alone: truncating a
\* truncated text with the same budget changes nothing, and a text no longer than
\* the budget is returned unchanged.
C12_TruncateIdempotent ==
  /\ Len(truncOut) = 2 => truncOut[2] = truncOut[1]
  /\ (Len(truncOut) >= 1 /\ Len(truncIn[1].t) <= truncIn[1].n) =>
       truncOut[1] = truncIn[1].t
  /\ (Len(truncOut) >= 1 /\ Len(truncIn[1].t) > truncIn[1].n) =>
       /\ Len(truncOut[1]) = truncIn[1].n + 3
       /\ SubSeq(truncOut[1], 1, truncIn[1].n) = SubSeq(truncIn[1].t, 1, truncIn[1].n)

\* C12 witness: a text of 13 characters cut to 12 and the ellipsis, and cut again
\* to the same 15 characters.
C12_Witness ==
  /\ truncIn = Some([t |-> [i \in 1..13 |-> "a"], n |-> 12])
  /\ Len(truncOut) = 2
  /\ Len(truncOut[1]) = 15
  /\ truncOut[2] = truncOut[1]

(***************************************************************************)
(* Properties of the handler: validation, configuration, uploads, webhook. *)
(***************************************************************************)
\* The request lacks its refId, or its labels are absent or empty.
MissingRequiredFields(request) ==
  ~StrTruthy(request.refId) \/ request.labels = None \/ request.labels[1] = <<>>

\* Nothing has been built, written or notified.
NothingDone ==
  /\ maxTextLines = 0 /\ rows = <<>> /\ totalLabels = None
  /\ cards = <<>> /\ blocks = <<>>
  /\ puts = <<>> /\ hooks = <<>>

\* C13: a request whose refId is missing, or whose labels are missing or empty, is
\* answered 400 by the first step, and on that path no table or document is built,
\* nothing is written to storage and no notification is sent.
C13_InvalidRequestRejected ==
  MissingRequiredFields(req) =>
    /\ NothingDone
    /\ pc \in {"start", "done"}
    /\ pc = "done" => response = Some([status |-> 400, error |-> "Missing required fields"])

\* C13 witness: a request with a refId and an empty labels array, answered 400.
C13_Witness ==
  /\ req.refId = Some(TxtRef)
  /\ req.labels = Some(<<>>)
  /\ pc = "done"
  /\ response # None /\ response[1].status = 400

\* C14 (as claimed): when a storage credential is absent, a valid request is
\* answered with a server error before anything is rendered, uploaded or notified,
\* in every revision.
C14_MissingCredentialsRejected ==
  (~MissingRequiredFields(req) /\ ~env.credentials) =>
    /\ NothingDone
    /\ pc \in {"start", "env", "done"}
    /\ pc = "done" => (response # None /\ response[1].status = 500)

\* C15: if a write to storage fails, the request ends at once with a 500 and the
\* webhook is never called, also when the first write succeeded and the second
\* failed: a step of an upload that adds no write ends the request with the upload
\* error, and a finished request with fewer than two writes has called no webhook
\* and is not a success.
C15_UploadFailureIsServerError ==
  /\ []((pc = "done" /\ Len(puts) < 2) =>
          (hooks = <<>> /\ response # None /\ response[1].status # 200))
  /\ [][(pc \in {"upload1", "upload2"} /\ puts' = puts) =>
          (/\ pc' = "done"
           /\ hooks' = <<>>
           /\ response' = Some([status |-> 500, error |-> uploadMessage(rev)]))]_vars

\* C15 witness: the spreadsheet was written, the second write failed, the request
\* ended with a 500 and no webhook call.
C15_Witness ==
  /\ pc = "done"
  /\ puts = <<"xlsx">>
  /\ hooks = <<>>
  /\ response # None /\ response[1].status = 500

\* C16 (as claimed): once both writes succeeded, a webhook call that throws or
\* returns a non-success status leaves the response a success.
C16_WebhookFailureSwallowed ==
  (pc = "done" /\ Len(puts) = 2 /\ hooks # <<>> /\ hooks[1] \in {"throw", "status"}) =>
    (response # None /\ response[1].status = 200)

\* The request passed the validation and the credentials check.
Accepted ==
  ~MissingRequiredFields(req) /\ (rev = "legacy" \/ env.credentials)

\* The cell of the fixed column c (1 = background color .. 7 = comments) of a data
\* row of a revision with dynamic columns.
FixedCell(row, c) == row[1 + 2 * maxTextLines + c]

\* C17 (as claimed): for any order that passes validation, in every revision, the
\* table and the second artifact are rendered without an error (a finished request
\* has its table and one card or block per design), and in the table a missing
\* color reads as the default hex's name, missing width / height as 7 and 2, a
\* missing corner style as "squared" and a missing quantity as one row.
C17_RenderingIsTotal ==
  (Accepted /\ pc = "done") =>
    /\ TableBuilt
    /\ Len(cards) = Len(labelsOf(req))
    /\ (DynamicColumns(rev) /\ Len(labelsOf(req)) = 1) =>
         LET label == labelsOf(req)[1]
         IN  /\ label.quantity = None => Len(rows) = 2
             /\ \A k \in 2..Len(rows) :
                  /\ label.labelColor = None =>
                       FixedCell(rows[k], 1) = <<"G", "r", "e", "e", "n">>
                  /\ label.textColor = None =>
                       FixedCell(rows[k], 2) = <<"W", "h", "i", "t", "e">>
                  /\ label.width = None => FixedCell(rows[k], 3) = Some(7)
                  /\ label.height = None => FixedCell(rows[k], 4) = Some(2)
                  /\ label.corners = None => FixedCell(rows[k], 5) = TxtSquared

\* C18 (as claimed): every success response carries the refId, the URLs of both
\* artifacts and totalLabels.
C18_SuccessResponseFields ==
  (response # None /\ response[1].status = 200) =>
    /\ response[1].refId = req.refId[1]
    /\ Len(response[1].urls) = 2
    /\ response[1].totalLabels # None

\* C19 (as claimed): the totalLabels value computed for the notification and the
\* response equals the number of data rows of the table, whatever the quantities.
C19_TotalLabelsEqualsDataRows ==
  TableBuilt => totalLabels = Some(Len(rows) - headerRows(rev))

\* C20 (as claimed): in the PDF revisions, the width and height written in a
\* design's table rows are those shown on its card and those its render box is
\* computed from, also when the design gives no width or height (on the orders
\* of one design that has rows).
C20_DimensionsAgree ==
  (PdfDone /\ Len(labelsOf(req)) = 1 /\ Len(rows) >= 2) =>
    /\ FixedCell(rows[2], 3) = cards[1].width
    /\ FixedCell(rows[2], 4) = cards[1].height
    /\ rev = "pdf2" =>
         LET box == fitBox(FixedCell(rows[2], 3)[1], FixedCell(rows[2], 4)[1],
                           maxBoxWidth, maxBoxHeight)
         IN  cards[1].boxWidth = box.boxWidth /\ cards[1].boxHeight = box.boxHeight

(***************************************************************************)
(* Properties of the cursor, the blocks and the texts of a card.           *)
(***************************************************************************)
\* The card drawn by the step that has just placed one.
LastCard == cards[Len(cards)]

\* C21 (as claimed): a step that draws a card leaves the cursor at that card's
\* cursor plus its rendered box height plus the inter-card spacing of 10.
C21_AdvanceByBoxHeight ==
  [][(pc = "cards" /\ li' = li + 1) =>
       y' = RAdd(RAdd(cards'[Len(cards')].y, cards'[Len(cards')].boxHeight), RInt(10))]_vars

\* C21 (amended): a step that draws a card leaves the cursor at that card's cursor
\* plus max(box height, 20) plus the spacing of 10 in the current revision (a card
\* row is at least 20 high, whatever its box), and plus the fixed box height of 20
\* plus 10 in the earlier one.
C21_AdvanceByRowHeight ==
  [][(pc = "cards" /\ li' = li + 1) =>
       /\ Len(cards') = Len(cards) + 1
       /\ y' = RAdd(cards'[Len(cards')].y,
                    RAdd(RMax(cards'[Len(cards')].boxHeight, RInt(20)), RInt(10)))
       /\ rev = "pdf1" => cards'[Len(cards')].boxHeight = RInt(20)]_vars

\* C21 witness: a 7 x 2 card of the current revision, box height 80/7, has been
\* drawn and the cursor stands 30 below that card's cursor.
C21_Witness ==
  /\ rev = "pdf2" /\ pc = "cards" /\ cards # <<>>
  /\ LastCard.boxHeight = <<80, 7>>
  /\ y = RAdd(LastCard.y, RInt(30))

\* The blocks of one kind that the renderer has drawn.
BlocksOf(kind) == {i \in DOMAIN blocks : blocks[i].kind = kind}

BlockBottom(b) == RAdd(b.top, b.height)

\* C22 (as claimed): the contact block and the notes block are each placed at
\* most once, the contact block before the card table and the notes block after
\* the last card, and each takes part in pagination: a block that does not fit
\* in what remains of the page is moved to a new page, so every block lies
\* within the height of its page.
C22_BlocksPaginate ==
  IsPdf(rev) =>
    /\ Cardinality(BlocksOf("contact")) <= 1
    /\ Cardinality(BlocksOf("notes")) <= 1
    /\ \A i \in BlocksOf("contact") :
         /\ blocks[i].page = 0
         /\ \A k \in DOMAIN cards :
              cards[k].page = 0 => RLe(BlockBottom(blocks[i]), cards[k].boxY)
    /\ \A i \in BlocksOf("notes") :
         \A k \in DOMAIN cards :
           \/ cards[k].page < blocks[i].page
           \/ /\ cards[k].page = blocks[i].page
              /\ RLe(cards[k].y, blocks[i].top)
    /\ \A i \in DOMAIN blocks :
         RLe(RInt(0), blocks[i].top) /\ RLe(BlockBottom(blocks[i]), RInt(pageHeight))

\* C28 (as claimed): the rectangle of the notes block ends no lower than the
\* bottom of the page it is drawn on.
C28_NotesWithinPage ==
  \A i \in BlocksOf("notes") :
    RLe(RAdd(blocks[i].top, blocks[i].height), RInt(pageHeight))

\* clamp(v, lo, hi) on rationals.
Clamp(v, lo, hi) == IF RLt(v, lo) THEN lo ELSE IF RLt(hi, v) THEN hi ELSE v

\* The design font size of drawn line t of design i (a size of 0 counts as 20 in
\* the current revision).
DesignFont(i, t) ==
  LET f == textsOf(labelsOf(req)[i])[t].fontSize
  IN  RInt(IF f = 0 /\ rev = "pdf2" THEN 20 ELSE f)

\* C23 (as claimed): in the current revision the rendered font size of every drawn
\* line is clamp(design font size * scale, 4, 8), scale being the multiplier of
\* the card's fitted box: rendered box height / design height.
C23_FontSizeByBoxScale ==
  rev = "pdf2" =>
    \A i \in DOMAIN cards : \A t \in DOMAIN cards[i].texts :
      cards[i].texts[t].fontSize
        = Clamp(RMul(DesignFont(i, t),
                     RDiv(cards[i].boxHeight, RInt(NumOr(labelsOf(req)[i].height, 2)))),
                RInt(4), RInt(8))

\* C23 (amended): in the current revision the rendered font size of every drawn
\* line is clamp(design font size * (rendered box height / 50), 4, 8), so it is
\* never below 4 nor above 8; in the revision with the label visual it is
\* max(8, design font size * scale), scale = min(240 / (72 w), 60 / (72 h)) being
\* the multiplier of the visual, so it is never below 8 and has no ceiling.
C23_FontSizeClamp ==
  /\ rev = "pdf2" =>
       \A i \in DOMAIN cards : \A t \in DOMAIN cards[i].texts :
         /\ cards[i].texts[t].fontSize
              = Clamp(RMul(DesignFont(i, t), RDiv(cards[i].boxHeight, RInt(50))),
                      RInt(4), RInt(8))
         /\ RLe(RInt(4), cards[i].texts[t].fontSize)
         /\ RLe(cards[i].texts[t].fontSize, RInt(8))
  /\ rev = "legacy" =>
       \A i \in DOMAIN cards : \A t \in DOMAIN cards[i].fontSizes :
         LET w == labelsOf(req)[i].width[1]
             h == labelsOf(req)[i].height[1]
             scale == RMin(Rat(240, 72 * w), Rat(60, 72 * h))
             v == RMul(DesignFont(i, t), scale)
         IN  /\ cards[i].fontSizes[t] = (IF RLt(v, RInt(8)) THEN RInt(8) ELSE v)
             /\ RLe(RInt(8), cards[i].fontSizes[t])

\* C23 witness: the current revision has drawn a 4 x 2 card whose line of size 24
\* is rendered at the ceiling of 8 and a 7 x 2 card whose line of size 12 is
\* rendered at the floor of 4.
C23_Witness ==
  /\ rev = "pdf2"
  /\ req.labels = Some(<<DesignB, DesignGap>>)
  /\ Len(cards) = 2
  /\ cards[1].texts[1].fontSize = RInt(8)
  /\ cards[2].texts[1].fontSize = RInt(4)

\* C24: in the current revision, every drawn line with x and y in [0, 100] is
\* anchored at textX = boxX + (x / 100) * boxWidth and textY = boxY + (y / 100) *
\* boxHeight, which lies inside the card's box.
C24_TextAnchorInsideBox ==
  rev = "pdf2" =>
    \A i \in DOMAIN cards : \A t \in DOMAIN cards[i].texts :
      LET c == cards[i]
          line == textsOf(labelsOf(req)[i])[t]
      IN  (line.x \in 0..100 /\ line.y \in 0..100) =>
            /\ c.texts[t].textX = RAdd(c.boxX, RMul(Rat(line.x, 100), c.boxWidth))
            /\ c.texts[t].textY = RAdd(c.boxY, RMul(Rat(line.y, 100), c.boxHeight))
            /\ RLe(c.boxX, c.texts[t].textX)
            /\ RLe(c.texts[t].textX, RAdd(c.boxX, c.boxWidth))
            /\ RLe(c.boxY, c.texts[t].textY)
            /\ RLe(c.texts[t].textY, RAdd(c.boxY, c.boxHeight))

\* C24 witness: a card with a line anchored at (0, 0), drawn at the top left corner
\* of the box, and a line anchored at (100, 100), drawn at its bottom right corner.
C24_Witness ==
  /\ rev = "pdf2"
  /\ req.labels = Some(<<DesignCorners>>)
  /\ Len(cards) = 1
  /\ cards[1].texts[1].textX = cards[1].boxX
  /\ cards[1].texts[1].textY = cards[1].boxY
  /\ cards[1].texts[2].textX = RAdd(cards[1].boxX, cards[1].boxWidth)
  /\ cards[1].texts[2].textY = RAdd(cards[1].boxY, cards[1].boxHeight)

\* The positions of the lines of a design whose text is not empty.
TextPositions(label) ==
  IF label.textLines = None THEN {}
  ELSE {j \in DOMAIN label.textLines[1] : label.textLines[1][j].text # <<>>}

\* The text of the first line with non-empty text, or the placeholder.
FirstText(label, placeholder) ==
  IF TextPositions(label) = {} THEN placeholder
  ELSE label.textLines[1][CHOOSE j \in TextPositions(label) :
                            \A k \in TextPositions(label) : j <= k].text

\* C25 (as claimed): in every revision, the primary text shown for a design is the
\* text of its first line with non-empty text, and the em-dash placeholder when it
\* has none.
C25_PrimaryIsFirstText ==
  \A i \in DOMAIN cards : cards[i].primary = FirstText(labelsOf(req)[i], TxtDash)

\* C25 (amended): the primary text of a design is the text of its first line with
\* non-empty text; when it has none it is the em-dash placeholder, and the word
\* "Empty" in the revision with the label visual; on a PDF card a primary text
\* longer than 20 characters (25 in the earlier revision) is shown as its first 20
\* (25) characters followed by "...".
C25_PrimaryText ==
  \A i \in DOMAIN cards :
    LET full == FirstText(labelsOf(req)[i],
                          IF rev = "legacy" THEN <<"E", "m", "p", "t", "y">> ELSE TxtDash)
        budget == IF rev = "pdf2" THEN 20 ELSE 25
    IN  cards[i].primary
          = IF IsPdf(rev) /\ Len(full) > budget
            THEN SubSeq(full, 1, budget) \o <<".", ".", ".">>
            ELSE full

\* C25 witness: the card of a design whose first line is empty shows the text of
\* its second line, and the card of a design without lines shows the placeholder.
C25_Witness ==
  /\ rev = "pdf2"
  /\ req.labels = Some(<<DesignGap, DesignZero>>)
  /\ Len(cards) = 2
  /\ cards[1].primary = TxtA
  /\ cards[2].primary = TxtDash

\* C26 (as claimed): no text is lost in the table: on an order of one design, every
\* line of the design with non-empty text appears, with its font size, in one of
\* the text / size column pairs of each of the design's rows.
C26_NoTextLost ==
  (TableBuilt /\ Len(labelsOf(req)) = 1) =>
    \A k \in (headerRows(rev) + 1)..Len(rows) :
      \A j \in TextPositions(labelsOf(req)[1]) :
        LET line == labelsOf(req)[1].textLines[1][j]
        IN  IF rev = "legacy"
            THEN \E i \in 1..legacyColumns :
                   /\ rows[k][3 + i] = line.text
                   /\ rows[k][3 + legacyColumns + i] = Some(line.fontSize)
            ELSE \E i \in 1..maxTextLines :
                   /\ PairText(rows[k], i) = line.text
                   /\ PairSize(rows[k], i) = Some(line.fontSize)

\* C27: the paginated renderer never produces an empty page: the step that breaks
\* the page places a card at the top margin of the new page, so every page holds a
\* card, no two breaks follow each other without a card, and there are at most
\* (number of cards - 1) breaks.
C27_NoEmptyPage ==
  /\ [](IsPdf(rev) =>
          /\ cards = <<>> => page = 0
          /\ cards # <<>> =>
               /\ page <= Len(cards) - 1
               /\ \A p \in 0..page : CardsOnPage(p) >= 1)
  /\ [][page' # page =>
          /\ page' = page + 1
          /\ Len(cards') = Len(cards) + 1
          /\ cards'[Len(cards')].page = page'
          /\ cards'[Len(cards')].y = RInt(margin)]_vars

\* C27 witness: the earlier revision has just broken the page: the last card is
\* the only card of page 1 and the card before it is on page 0.
C27_Witness ==
  /\ rev = "pdf1"
  /\ page = 1
  /\ Len(cards) >= 2
  /\ LastCard.page = 1
  /\ CardsOnPage(1) = 1
  /\ cards[Len(cards) - 1].page = 0

\* The second artifact of a revision.
SecondArtifact == IF IsPdf(rev) THEN "pdf" ELSE "html"

\* C29: the writes are made in order, the spreadsheet first and the second
\* artifact after it, each at most once; the webhook is called at most once and
\* only after both writes; and a success response is given only after both writes
\* (and after the webhook call, when there is one).
C29_WritesBeforeSuccess ==
  /\ puts \in {<<>>, <<"xlsx">>, <<"xlsx", SecondArtifact>>}
  /\ Len(hooks) <= 1
  /\ hooks # <<>> => puts = <<"xlsx", SecondArtifact>>
  /\ pc \in {"hook", "respond"} => puts = <<"xlsx", SecondArtifact>>
  /\ (response # None /\ response[1].status = 200) =>
       /\ puts = <<"xlsx", SecondArtifact>>
       /\ pc = "done"
       /\ (rev = "legacy" \/ env.zapierWebhook) => Len(hooks) = 1

\* C29 witness: a request answered 200 after the spreadsheet, the PDF and one
\* webhook call.
C29_Witness ==
  /\ pc = "done"
  /\ response # None /\ response[1].status = 200
  /\ puts = <<"xlsx", "pdf">>
  /\ hooks = <<"ok">>

====
